---- MODULE Spec2Model ----
(***************************************************************************)
(* Model of rubber's indexing module (src/src/modules/index.py): the      *)
(* registry of Index objects of class Module, the directives that         *)
(* configure them, the md5-based decision to run makeindex after a        *)
(* compilation, and the removal of the generated files.                   *)
(*                                                                         *)
(* Strings that the code takes apart (a declaration line, a directive     *)
(* argument) are sequences of lexemes; a file name base.suffix is the     *)
(* pair <<base, suffix>>.                                                  *)
(***************************************************************************)
EXTENDS Integers, Sequences, FiniteSets, TLC

VARIABLES
    indices,       \* Module.indices: index name -> Index object
    files,         \* the file system: file name -> contents, or NoFile
    must_compile,  \* env.must_compile
    src_path,      \* env.src_path
    ndirectives,   \* number of directives applied so far
    last           \* what the most recent Module.post_compile() did

vars == <<indices, files, must_compile, src_path, ndirectives, last>>

----------------------------------------------------------------------------
(* Bounds *)

MaxOpts == 1          \* longest options list  (self.opts)
MaxPath == 2          \* longest search path   (self.path)
MaxDirectives == 1    \* directives applied in one behaviour

----------------------------------------------------------------------------
(* Values *)

None == <<"<None>">>  \* Python's None (no string is equal to it)
NoFile == "NoFile"    \* contents of a file that does not exist
NoMatch == <<>>       \* a regular expression that did not match

src_base == "doc"     \* env.src_base
HOME == "/home/u"     \* what os.path.expanduser puts for a leading ~
EmptyStr == <<>>      \* the string ""

Contents == {"A", "B"}          \* bytes an index source may hold
ToolOutput == "ind"             \* bytes makeindex writes to its target
SrcPaths == {EmptyStr, <<"texdir">>}   \* possible values of env.src_path

File(base, suffix) == <<base, suffix>>

IdxFiles == {File(src_base, "idx"), File(src_base, "adx")}
IndFiles == {File(src_base, "ind"), File(src_base, "and")}
IlgFile == File(src_base, "ilg")
AllFiles == IdxFiles \cup IndFiles \cup {IlgFile}

\* rubber.util.md5_file: the MD5 digest of the contents of a file
MD5(bytes) ==
    CASE bytes = "A" -> "7fc56270e7a70fa81a5935b72eacbe29"
      [] bytes = "B" -> "9d5ed678fe57bcca610140957afab571"
      [] OTHER -> "d41d8cd98f00b204e9800998ecf8427e"

md5_file(fs, f) == <<MD5(fs[f])>>

----------------------------------------------------------------------------
(* Index.__init__ *)

InitPath(sp) ==
    IF sp # EmptyStr /\ sp # <<".">> THEN <<EmptyStr, sp>> ELSE <<EmptyStr>>

NewIndex(fs, sp, source, target) ==
    [ source |-> File(src_base, source),
      target |-> File(src_base, target),
      pbase  |-> src_base,
      md5    |-> IF fs[File(src_base, source)] # NoFile
                 THEN md5_file(fs, File(src_base, source))
                 ELSE None,
      path   |-> InitPath(sp),
      style  |-> None,
      opts   |-> <<>> ]

----------------------------------------------------------------------------
\* re_newindex: optional spaces, a group in braces, optional spaces, a second
\* group in braces; a group holds no brace.  The match is anchored at the
\* start of the line only.

RECURSIVE SkipSpaces(_, _)
SkipSpaces(line, i) ==
    IF i <= Len(line) /\ line[i] = " " THEN SkipSpaces(line, i + 1) ELSE i

\* a group {x} starting at position i: <<x, position after the group>>
Group(line, i) ==
    IF i > Len(line) \/ line[i] # "{" THEN NoMatch
    ELSE IF i + 1 <= Len(line) /\ line[i + 1] = "}" THEN <<"", i + 2>>
    ELSE IF i + 2 <= Len(line) /\ line[i + 1] \notin {"{", "}"}
            /\ line[i + 2] = "}" THEN <<line[i + 1], i + 3>>
    ELSE NoMatch

re_newindex(line) ==
    LET g1 == Group(line, SkipSpaces(line, 1)) IN
    IF g1 = NoMatch THEN NoMatch
    ELSE LET g2 == Group(line, SkipSpaces(line, g1[2])) IN
         IF g2 = NoMatch THEN NoMatch
         ELSE <<g1[1], g2[1]>>     \* the groups idx and ind

\* the declarations a document may hold: <<dict["arg"], dict["line"]>>
Declarations ==
    { <<"aut", <<"{", "adx", "}", "{", "and", "}">>>>,
      <<"aut", <<" ", "{", "adx", "}", " ", "{", "and", "}", "{", "Authors", "}">>>>,
      <<"aut", <<"[", "adx", "]", "{", "and", "}">>>>,
      <<"default", <<"{", "idx", "}", "{", "ind", "}">>>> }

----------------------------------------------------------------------------
(* Index.command *)

expanduser(arg) ==
    IF Len(arg) > 0 /\ arg[1] = "~" THEN <<HOME>> \o Tail(arg) ELSE arg

\* one round of the loop "for opt in args" of the directive order
OrderOpt(opts, opt) ==
    IF opt = <<"standard">> THEN <<>>
    ELSE IF opt = <<"german">> THEN Append(opts, <<"-g">>)
    ELSE IF opt = <<"letter">> THEN Append(opts, <<"-l">>)
    ELSE opts

RECURSIVE OrderLoop(_, _)
OrderLoop(opts, args) ==
    IF args = <<>> THEN opts
    ELSE OrderLoop(OrderOpt(opts, Head(args)), Tail(args))

RECURSIVE PathLoop(_, _)
PathLoop(path, args) ==
    IF args = <<>> THEN path
    ELSE PathLoop(Append(path, expanduser(Head(args))), Tail(args))

\* a path directive that puts its directories in front of the search path
Index_command_prepend(ix, cmd, args) ==
    IF cmd = "order" THEN [ix EXCEPT !.opts = OrderLoop(ix.opts, args)]
    ELSE IF cmd = "path" THEN [ix EXCEPT !.path = PathLoop(<<>>, args) \o ix.path]
    ELSE IF cmd = "style" THEN
        IF Len(args) > 1 THEN [ix EXCEPT !.style = args[1]] ELSE ix
    ELSE ix

\* a style directive that takes its single argument as the style
Index_command_style1(ix, cmd, args) ==
    IF cmd = "order" THEN [ix EXCEPT !.opts = OrderLoop(ix.opts, args)]
    ELSE IF cmd = "path" THEN [ix EXCEPT !.path = PathLoop(ix.path, args)]
    ELSE IF cmd = "style" THEN
        IF Len(args) > 0 THEN [ix EXCEPT !.style = args[1]] ELSE ix
    ELSE ix

Index_command(ix, cmd, args) ==
    IF cmd = "order" THEN [ix EXCEPT !.opts = OrderLoop(ix.opts, args)]
    ELSE IF cmd = "path" THEN [ix EXCEPT !.path = PathLoop(ix.path, args)]
    ELSE IF cmd = "style" THEN
        IF Len(args) > 1 THEN [ix EXCEPT !.style = args[1]] ELSE ix
    ELSE ix

----------------------------------------------------------------------------
\* re_optarg: an opening parenthesis, a list that holds no parenthesis, a
\* closing parenthesis, optional spaces; anchored at the start only.
\* A match is <<list>>.

RECURSIVE ClosingAt(_, _)
ClosingAt(arg, j) ==
    IF j > Len(arg) THEN 0
    ELSE IF arg[j] = ")" THEN j
    ELSE IF arg[j] = "(" THEN 0
    ELSE ClosingAt(arg, j + 1)

re_optarg(arg) ==
    IF Len(arg) = 0 \/ arg[1] # "(" THEN NoMatch
    ELSE LET j == ClosingAt(arg, 2) IN
         IF j = 0 THEN NoMatch ELSE <<SubSeq(arg, 2, j - 1)>>

\* list.split(","): the pieces between the commas (a piece is one lexeme,
\* or "" when nothing stands between two commas)
RECURSIVE split(_, _)
split(list, piece) ==
    IF list = <<>> THEN <<piece>>
    ELSE IF Head(list) = "," THEN <<piece>> \o split(Tail(list), "")
    ELSE split(Tail(list), Head(list))

(* Module.command *)

RECURSIVE FilterLoop(_, _, _, _)
FilterLoop(ixs, names, cmd, args) ==
    IF names = <<>> THEN ixs
    ELSE LET index == Head(names) IN
         FilterLoop(IF index \in DOMAIN ixs
                    THEN [ixs EXCEPT ![index] = Index_command(ixs[index], cmd, args)]
                    ELSE ixs,
                    Tail(names), cmd, args)

\* a dispatcher that hands a filtered directive to every index
Module_command_broadcast(ixs, cmd, args) ==
    IF Len(args) > 0 THEN
        LET m == re_optarg(args[1]) IN
        IF m # NoMatch
        THEN [index \in DOMAIN ixs |-> Index_command(ixs[index], cmd, Tail(args))]
        ELSE ixs
    ELSE [index \in DOMAIN ixs |-> Index_command(ixs[index], cmd, args)]

Module_command(ixs, cmd, args) ==
    IF Len(args) > 0 THEN
        LET m == re_optarg(args[1]) IN
        IF m # NoMatch THEN FilterLoop(ixs, split(m[1], ""), cmd, Tail(args))
        ELSE ixs
    ELSE [index \in DOMAIN ixs |-> Index_command(ixs[index], cmd, args)]

Commands == {"order", "path", "style"}

\* the argument lists of the directives a document may hold
ArgLists ==
    { <<>>,
      << <<"german">> >>,
      << <<"standard">> >>,
      << <<"(", "default", ")">>, <<"german">> >>,
      << <<"(", "zzz", ",", "aut", ")">>, <<"~", "/sty">> >>,
      << <<"(", "aut", ",", "default", ")">>, <<"my.ist">>, <<"standard">> >> }

WithinBounds(ixs) ==
    \A n \in DOMAIN ixs : Len(ixs[n].opts) <= MaxOpts /\ Len(ixs[n].path) <= MaxPath

----------------------------------------------------------------------------
(* The record of a Module.post_compile() call *)

NoCall ==
    [ called  |-> FALSE,  \* post_compile() has been called
      tick    |-> 0,      \* the parity of the number of calls
      ret     |-> 0,      \* what the call returned
      evald   |-> <<>>,   \* the indices whose post_compile() it called, in order
      calls   |-> <<>>,   \* the env.execute() calls it made, in order
      src     |-> [f \in IdxFiles |-> NoFile],  \* the sources as it found them
      kept    |-> {} ]    \* the indices it evaluated that are still the same object

Names(seq) == {seq[i] : i \in 1..Len(seq)}

FailedIn(l) == {l.calls[i].name : i \in {j \in 1..Len(l.calls) : l.calls[j].exit # 0}}

\* a store that keeps the entry a key already has
Put_keep(f, k, v) == [x \in DOMAIN f \cup {k} |-> IF x \in DOMAIN f THEN f[x] ELSE v]

Put(f, k, v) == [x \in DOMAIN f \cup {k} |-> IF x = k THEN v ELSE f[x]]

----------------------------------------------------------------------------
(* Index.run_needed: <<the verdict, the md5 the index holds afterwards>> *)

\* as run_needed, but an unchanged source is a reason to run
run_needed_rerun(ix, fs) ==
    IF fs[ix.target] = NoFile THEN <<1, md5_file(fs, ix.source)>>
    ELSE IF ix.md5 = None THEN <<1, md5_file(fs, ix.source)>>
    ELSE LET new == md5_file(fs, ix.source) IN
         IF ix.md5 = new THEN <<1, ix.md5>> ELSE <<1, new>>

\* as run_needed, but a changed source is stored and not reported
run_needed_silent(ix, fs) ==
    IF fs[ix.target] = NoFile THEN <<1, md5_file(fs, ix.source)>>
    ELSE IF ix.md5 = None THEN <<1, md5_file(fs, ix.source)>>
    ELSE LET new == md5_file(fs, ix.source) IN
         IF ix.md5 = new THEN <<0, ix.md5>> ELSE <<0, new>>

\* as run_needed, but the md5 is not stored when the target is absent
run_needed_nostore(ix, fs) ==
    IF fs[ix.target] = NoFile THEN <<1, ix.md5>>
    ELSE IF ix.md5 = None THEN <<1, md5_file(fs, ix.source)>>
    ELSE LET new == md5_file(fs, ix.source) IN
         IF ix.md5 = new THEN <<0, ix.md5>> ELSE <<1, new>>

\* as run_needed, but without the test of the target
run_needed_notarget(ix, fs) ==
    IF ix.md5 = None THEN <<1, md5_file(fs, ix.source)>>
    ELSE LET new == md5_file(fs, ix.source) IN
         IF ix.md5 = new THEN <<0, ix.md5>> ELSE <<1, new>>

\* as run_needed, but the md5 of a changed source is not stored
run_needed_keepold(ix, fs) ==
    IF fs[ix.target] = NoFile THEN <<1, md5_file(fs, ix.source)>>
    ELSE IF ix.md5 = None THEN <<1, md5_file(fs, ix.source)>>
    ELSE LET new == md5_file(fs, ix.source) IN
         IF ix.md5 = new THEN <<0, ix.md5>> ELSE <<1, ix.md5>>

run_needed(ix, fs) ==
    IF fs[ix.target] = NoFile THEN <<1, md5_file(fs, ix.source)>>
    ELSE IF ix.md5 = None THEN <<1, md5_file(fs, ix.source)>>
    ELSE LET new == md5_file(fs, ix.source) IN
         IF ix.md5 = new THEN <<0, ix.md5>> ELSE <<1, new>>

----------------------------------------------------------------------------
(* Index.post_compile *)

ExitCodes == {0, 1}            \* what env.execute may return
getenv_INDEXSTYLE == EmptyStr  \* os.getenv("INDEXSTYLE", "")

\* string.join(words, sep)
RECURSIVE join(_, _)
join(words, sep) ==
    IF words = <<>> THEN <<>>
    ELSE IF Len(words) = 1 THEN Head(words)
    ELSE Head(words) \o <<sep>> \o join(Tail(words), sep)

\* a command line that leaves the style out
Argv_nostyle(ix) ==
    << <<"makeindex">>, <<"-o">>, ix.target >> \o ix.opts \o << <<ix.pbase>> >>

Argv(ix) ==
    << <<"makeindex">>, <<"-o">>, ix.target >> \o ix.opts
       \o (IF ix.style # None THEN << <<"-s">>, ix.style >> ELSE <<>>)
       \o << <<ix.pbase>> >>

Environ(ix) ==
    IF ix.path # <<EmptyStr>>
    THEN << <<"INDEXSTYLE">>, join(ix.path \o <<getenv_INDEXSTYLE>>, ":") >>
    ELSE <<>>

\* env.execute(cmd, env) running makeindex: with exit code 0 it has written
\* the target and its transcript; with another exit code it has written
\* them (wrote = TRUE) or nothing at all.
Execute(fs, ix, exit, wrote) ==
    IF exit = 0 \/ wrote
    THEN [f \in DOMAIN fs |-> IF f = ix.target THEN ToolOutput
                              ELSE IF f = File(ix.pbase, "ilg") THEN "log"
                              ELSE fs[f]]
    ELSE fs

\* as Index_post_compile, but must_compile is set before the exit code is
\* looked at
Index_post_compile_early(st, name, exit, wrote) ==
    LET ix == st.indices[name]
        seen == [st EXCEPT !.evald = Append(@, name)] IN
    IF st.files[ix.source] = NoFile THEN [seen EXCEPT !.rc = 0]
    ELSE
        LET rn == run_needed(ix, st.files)
            ix2 == [ix EXCEPT !.md5 = rn[2]]
            st2 == [seen EXCEPT !.indices[name] = ix2] IN
        IF rn[1] = 0 THEN [st2 EXCEPT !.rc = 0]
        ELSE
            LET st3 == [st2 EXCEPT
                          !.files = Execute(st.files, ix2, exit, wrote),
                          !.must_compile = 1,
                          !.calls = Append(@, [name |-> name, argv |-> Argv(ix2),
                                               env |-> Environ(ix2), exit |-> exit])] IN
            IF exit # 0 THEN [st3 EXCEPT !.rc = 1] ELSE [st3 EXCEPT !.rc = 0]

\* as Index_post_compile, but a failed run gives the index its old md5 back
Index_post_compile_revert(st, name, exit, wrote) ==
    LET ix == st.indices[name]
        seen == [st EXCEPT !.evald = Append(@, name)] IN
    IF st.files[ix.source] = NoFile THEN [seen EXCEPT !.rc = 0]
    ELSE
        LET rn == run_needed(ix, st.files)
            ix2 == [ix EXCEPT !.md5 = rn[2]]
            st2 == [seen EXCEPT !.indices[name] = ix2] IN
        IF rn[1] = 0 THEN [st2 EXCEPT !.rc = 0]
        ELSE
            LET st3 == [st2 EXCEPT
                          !.files = Execute(st.files, ix2, exit, wrote),
                          !.calls = Append(@, [name |-> name, argv |-> Argv(ix2),
                                               env |-> Environ(ix2), exit |-> exit])] IN
            IF exit # 0 THEN [st3 EXCEPT !.rc = 1, !.indices[name] = ix]
            ELSE [st3 EXCEPT !.must_compile = 1, !.rc = 0]

\* as Index_post_compile, but without the test of the source
Index_post_compile_nosource(st, name, exit, wrote) ==
    LET ix == st.indices[name]
        seen == [st EXCEPT !.evald = Append(@, name)]
        rn == run_needed(ix, st.files)
        ix2 == [ix EXCEPT !.md5 = rn[2]]
        st2 == [seen EXCEPT !.indices[name] = ix2] IN
    IF rn[1] = 0 THEN [st2 EXCEPT !.rc = 0]
    ELSE
        LET st3 == [st2 EXCEPT
                      !.files = Execute(st.files, ix2, exit, wrote),
                      !.calls = Append(@, [name |-> name, argv |-> Argv(ix2),
                                           env |-> Environ(ix2), exit |-> exit])] IN
        IF exit # 0 THEN [st3 EXCEPT !.rc = 1]
        ELSE [st3 EXCEPT !.must_compile = 1, !.rc = 0]

\* as Index_post_compile, but must_compile is set for an index that is up
\* to date as well
Index_post_compile_always(st, name, exit, wrote) ==
    LET ix == st.indices[name]
        seen == [st EXCEPT !.evald = Append(@, name)] IN
    IF st.files[ix.source] = NoFile THEN [seen EXCEPT !.rc = 0]
    ELSE
        LET rn == run_needed(ix, st.files)
            ix2 == [ix EXCEPT !.md5 = rn[2]]
            st2 == [seen EXCEPT !.indices[name] = ix2] IN
        IF rn[1] = 0 THEN [st2 EXCEPT !.must_compile = 1, !.rc = 0]
        ELSE
            LET st3 == [st2 EXCEPT
                          !.files = Execute(st.files, ix2, exit, wrote),
                          !.calls = Append(@, [name |-> name, argv |-> Argv(ix2),
                                               env |-> Environ(ix2), exit |-> exit])] IN
            IF exit # 0 THEN [st3 EXCEPT !.rc = 1]
            ELSE [st3 EXCEPT !.must_compile = 1, !.rc = 0]

\* st is the state the call works on: the indices, the files, must_compile
\* and the record of the enclosing Module.post_compile(); rc is the value
\* returned by Index.post_compile.
\* as Index_post_compile, but an index that finds no source forgets its hash
Index_post_compile_forget(st, name, exit, wrote) ==
    LET ix == st.indices[name]
        seen == [st EXCEPT !.evald = Append(@, name)] IN
    IF st.files[ix.source] = NoFile
    THEN [seen EXCEPT !.rc = 0, !.indices[name].md5 = None]
    ELSE
        LET rn == run_needed(ix, st.files)
            ix2 == [ix EXCEPT !.md5 = rn[2]]
            st2 == [seen EXCEPT !.indices[name] = ix2] IN
        IF rn[1] = 0 THEN [st2 EXCEPT !.rc = 0]
        ELSE
            LET st3 == [st2 EXCEPT
                          !.files = Execute(st.files, ix2, exit, wrote),
                          !.calls = Append(@, [name |-> name, argv |-> Argv(ix2),
                                               env |-> Environ(ix2), exit |-> exit])] IN
            IF exit # 0 THEN [st3 EXCEPT !.rc = 1]
            ELSE [st3 EXCEPT !.must_compile = 1, !.rc = 0]

Index_post_compile(st, name, exit, wrote) ==
    LET ix == st.indices[name]
        seen == [st EXCEPT !.evald = Append(@, name)] IN
    IF st.files[ix.source] = NoFile THEN [seen EXCEPT !.rc = 0]
    ELSE
        LET rn == run_needed(ix, st.files)
            ix2 == [ix EXCEPT !.md5 = rn[2]]
            st2 == [seen EXCEPT !.indices[name] = ix2] IN
        IF rn[1] = 0 THEN [st2 EXCEPT !.rc = 0]
        ELSE
            LET st3 == [st2 EXCEPT
                          !.files = Execute(st.files, ix2, exit, wrote),
                          !.calls = Append(@, [name |-> name, argv |-> Argv(ix2),
                                               env |-> Environ(ix2), exit |-> exit])] IN
            IF exit # 0 THEN [st3 EXCEPT !.rc = 1]
            ELSE [st3 EXCEPT !.must_compile = 1, !.rc = 0]

(* Module.post_compile: order is the order in which self.indices.values()
   yields the indices *)

\* as Module_post_compile, but the loop goes on after a failure
RECURSIVE Module_post_compile_goon(_, _, _, _)
Module_post_compile_goon(st, order, exits, wrote) ==
    IF order = <<>> THEN st
    ELSE LET name == Head(order)
             st2 == Index_post_compile(st, name, exits[name], wrote) IN
         Module_post_compile_goon(
             [st2 EXCEPT !.rc = IF st.rc # 0 THEN 1 ELSE st2.rc],
             Tail(order), exits, wrote)

RECURSIVE Module_post_compile(_, _, _, _)
Module_post_compile(st, order, exits, wrote) ==
    IF order = <<>> THEN [st EXCEPT !.rc = 0]
    ELSE LET name == Head(order)
             st2 == Index_post_compile(st, name, exits[name], wrote) IN
         IF st2.rc # 0 THEN [st2 EXCEPT !.rc = 1]
         ELSE Module_post_compile(st2, Tail(order), exits, wrote)

\* a dictionary that may yield a value more than once
Orders_repeat(S) == [1..Cardinality(S) -> S]

\* the orders in which a dictionary with the keys S may yield its values
Orders(S) ==
    {o \in [1..Cardinality(S) -> S] : \A i, j \in 1..Cardinality(S) : o[i] = o[j] => i = j}

----------------------------------------------------------------------------
(* Index.clean and Module.clean *)

\* an index that leaves its target when it cleans
Index_clean_keeptarget(fs, ix) ==
    [f \in DOMAIN fs |->
        IF f \in {ix.source, File(ix.pbase, "ilg")} THEN NoFile ELSE fs[f]]

Index_clean(fs, ix) ==
    [f \in DOMAIN fs |->
        IF f \in {ix.source, ix.target, File(ix.pbase, "ilg")} THEN NoFile ELSE fs[f]]

remove_suffixes(fs, suffixes) ==
    [f \in DOMAIN fs |->
        IF \E x \in suffixes : f = File(src_base, x) THEN NoFile ELSE fs[f]]

RECURSIVE CleanLoop(_, _, _)
CleanLoop(fs, ixs, order) ==
    IF order = <<>> THEN fs
    ELSE CleanLoop(Index_clean(fs, ixs[Head(order)]), ixs, Tail(order))

\* Module.clean: the files it leaves and the value it returns
Module_clean(fs, ixs, order) ==
    [ files |-> CleanLoop(remove_suffixes(fs, {"ilg"}), ixs, order),
      rc    |-> 0 ]

----------------------------------------------------------------------------
(* Module.__init__ *)

\* what an earlier build may have left in the directory
LeftFiles ==
    { [f \in AllFiles |-> NoFile],
      [f \in AllFiles |-> IF f \in IdxFiles THEN NoFile
                           ELSE IF f = IlgFile THEN "log" ELSE ToolOutput] }

Init ==
    /\ indices = <<>>
    /\ files \in LeftFiles
    /\ must_compile = 0
    /\ src_path = EmptyStr
    /\ ndirectives = 0
    /\ last = NoCall

(* Module.makeindex *)
makeindex ==
    /\ indices' = Put(indices, "default", NewIndex(files, src_path, "idx", "ind"))
    /\ last' = [last EXCEPT !.kept = @ \ {"default"}]
    /\ UNCHANGED <<files, must_compile, src_path, ndirectives>>

(* Module.newindex *)
newindex(arg, line) ==
    LET m == re_newindex(line) IN
    /\ indices' = IF m = NoMatch THEN indices
                  ELSE Put(indices, arg, NewIndex(files, src_path, m[1], m[2]))
    /\ last' = IF m = NoMatch THEN last ELSE [last EXCEPT !.kept = @ \ {arg}]
    /\ UNCHANGED <<files, must_compile, src_path, ndirectives>>

command(cmd, args) ==
    /\ \E ixs \in {Module_command(indices, cmd, args)} :
          WithinBounds(ixs) /\ indices' = ixs
    /\ ndirectives' = ndirectives + 1
    /\ UNCHANGED <<files, must_compile, src_path, last>>

post_compile(order, exits, wrote) ==
    \E st \in {Module_post_compile(
                  [indices |-> indices, files |-> files, must_compile |-> must_compile,
                   rc |-> 0, evald |-> <<>>, calls |-> <<>>],
                  order, exits, wrote)} :
    /\ indices' = st.indices
    /\ files' = st.files
    /\ must_compile' = st.must_compile
    /\ last' = [ called  |-> TRUE,
                 tick    |-> 1 - last.tick,
                 ret     |-> st.rc,
                 evald   |-> st.evald,
                 calls   |-> st.calls,
                 src     |-> [f \in IdxFiles |-> files[f]],
                 kept    |-> Names(st.evald) ]
    /\ UNCHANGED <<src_path, ndirectives>>

clean(order) ==
    /\ files' = Module_clean(files, indices, order).files
    /\ UNCHANGED <<indices, must_compile, src_path, ndirectives, last>>

\* the bytes LaTeX may write to an index source
Written(f) == IF f = File(src_base, "idx") THEN Contents ELSE {"A"}

\* One pass of LaTeX, run by the host: it clears must_compile and writes
\* an index source anew.
compile(f, bytes) ==
    /\ files' = [files EXCEPT ![f] = bytes]
    /\ must_compile' = 0
    /\ UNCHANGED <<indices, src_path, ndirectives, last>>

Next ==
    \/ \E f \in IdxFiles : \E bytes \in Written(f) : compile(f, bytes)
    \/ \E order \in Orders(DOMAIN indices),
          exits \in [DOMAIN indices -> ExitCodes],
          wrote \in BOOLEAN : post_compile(order, exits, wrote)
    \/ \E order \in Orders(DOMAIN indices) : clean(order)
    \/ makeindex
    \/ \E d \in Declarations : newindex(d[1], d[2])

Spec == Init /\ [][Next]_vars

----------------------------------------------------------------------------
\* The module without its host: declarations and directives in any order,
\* post_compile and clean over the files an earlier build has left, and no
\* pass of LaTeX.

SourcesLeft ==
    { [f \in AllFiles |-> NoFile],
      [f \in AllFiles |-> IF f \in IdxFiles THEN "A" ELSE NoFile] }

InitD ==
    /\ indices = <<>>
    /\ files \in SourcesLeft
    /\ must_compile = 0
    /\ src_path \in SrcPaths
    /\ ndirectives = 0
    /\ last = NoCall

NextD ==
    \/ makeindex
    \/ \E d \in Declarations : newindex(d[1], d[2])
    \/ \E cmd \in Commands, args \in ArgLists :
          ndirectives < MaxDirectives /\ command(cmd, args)
    \/ \E order \in Orders(DOMAIN indices),
          exits \in [DOMAIN indices -> ExitCodes],
          wrote \in BOOLEAN : post_compile(order, exits, wrote)
    \/ \E order \in Orders(DOMAIN indices) : clean(order)

SpecD == InitD /\ [][NextD]_vars
----------------------------------------------------------------------------
(* Properties *)

Src(n) == indices[n].source
Tgt(n) == indices[n].target

\* the step is a call of Module.post_compile; last' is its record
PostStep == last'.tick # last.tick

Invoked(l, n) == \E i \in 1..Len(l.calls) : l.calls[i].name = n
RunsOf(l, n) == {i \in 1..Len(l.calls) : l.calls[i].name = n}
ZeroExits(l) == {i \in 1..Len(l.calls) : l.calls[i].exit = 0}

\* C1, as claimed: an index whose source holds the same bytes at two
\* consecutive calls of post_compile is not run through makeindex by the
\* second call.  (Read in its favour: of an index that the first call has
\* evaluated and that has not been registered again since.)
C1_Claimed ==
    [][PostStep /\ last.called =>
        \A n \in DOMAIN indices \cap last.kept :
            files[Src(n)] = last.src[Src(n)] => ~Invoked(last', n)]_vars

\* C1, amended: an index that the first of two consecutive calls of
\* post_compile has evaluated, that has not been registered again since and
\* whose source holds the same bytes at both calls is not run through
\* makeindex by the second call, provided its target exists when the second
\* call starts (or its source is absent).
C1_Unchanged ==
    [][PostStep /\ last.called =>
        \A n \in DOMAIN indices \cap last.kept :
            /\ files[Src(n)] = last.src[Src(n)]
            /\ (files[Src(n)] = NoFile \/ files[Tgt(n)] # NoFile)
            => ~Invoked(last', n)]_vars

\* a call has run makeindex for an index and written its target; the source
\* holds the same bytes again (or still) and the next call is about to start
C1_Witness ==
    /\ last.called
    /\ \E n \in DOMAIN indices \cap last.kept :
          /\ Invoked(last, n)
          /\ files[Src(n)] # NoFile
          /\ files[Src(n)] = last.src[Src(n)]
          /\ files[Tgt(n)] # NoFile

\* C2, as claimed: an index whose source exists and holds other bytes than
\* at the call before is run through makeindex by the second call.  (Read
\* in its favour: of an index that the first call has evaluated with its
\* source present and that has not been registered again since.)
C2_Claimed ==
    [][PostStep /\ last.called =>
        \A n \in DOMAIN indices \cap last.kept :
            /\ last.src[Src(n)] # NoFile
            /\ files[Src(n)] # NoFile
            /\ files[Src(n)] # last.src[Src(n)]
            => Invoked(last', n)]_vars

\* C2, amended: an index that the first call has evaluated with its source
\* present, that has not been registered again since and whose source holds
\* other bytes at the second call is run through makeindex by the second
\* call, provided the second call reaches it (no index before it in the
\* iteration has a run that exits nonzero).
C2_Changed ==
    [][PostStep /\ last.called =>
        \A n \in DOMAIN indices \cap last.kept :
            /\ last.src[Src(n)] # NoFile
            /\ files[Src(n)] # NoFile
            /\ files[Src(n)] # last.src[Src(n)]
            /\ n \in Names(last'.evald)
            => Invoked(last', n)]_vars

\* a call has evaluated an index and found it up to date or run makeindex
\* with success; its source has been written with other bytes since; the
\* target is there and only the md5 can tell
C2_Witness ==
    /\ last.called
    /\ last.ret = 0
    /\ \E n \in DOMAIN indices \cap last.kept :
          /\ last.src[Src(n)] # NoFile
          /\ files[Src(n)] # NoFile
          /\ files[Src(n)] # last.src[Src(n)]
          /\ files[Tgt(n)] # NoFile

\* C3, as claimed: a call of post_compile that starts with must_compile
\* unset and in which a run of makeindex exits nonzero returns failure and
\* leaves must_compile unset.
C3_Claimed ==
    [][PostStep /\ must_compile = 0 /\ FailedIn(last') # {} =>
        last'.ret = 1 /\ must_compile' = 0]_vars

\* C3, amended: such a call returns failure, and it leaves must_compile
\* unset unless a run of makeindex for an index evaluated earlier in the
\* same call has exited zero (that run has set it).
C3_FailedRun ==
    [][PostStep /\ must_compile = 0 /\ FailedIn(last') # {} =>
        /\ last'.ret = 1
        /\ (must_compile' = 0 <=> ZeroExits(last') = {})]_vars

\* a call whose only run failed has returned failure and must_compile is unset
C3_Witness ==
    /\ last.called
    /\ last.ret = 1
    /\ Len(last.calls) = 1
    /\ FailedIn(last) # {}
    /\ must_compile = 0

\* C4: when post_compile has evaluated an index whose source exists, the
\* md5 the index holds is the digest of the source, whatever the verdict
\* and whatever makeindex has returned.
C4_HashStored ==
    [][PostStep =>
        \A n \in Names(last'.evald) :
            files[Src(n)] # NoFile => indices'[n].md5 = md5_file(files', Src(n))]_vars

\* the run for an index has failed at a call that found the bytes "B" in
\* its source, and the index holds their digest
C4_Witness ==
    /\ last.called
    /\ \E n \in FailedIn(last) \cap last.kept :
          /\ last.src[Src(n)] = "B"
          /\ files[Src(n)] = "B"
          /\ indices[n].md5 = md5_file(files, Src(n))

C6_ShortCircuit ==
    [][PostStep =>
        LET l == last' IN
        /\ \A i \in 1..Len(l.calls) :
              l.calls[i].exit # 0 =>
                 i = Len(l.calls) /\ l.evald[Len(l.evald)] = l.calls[i].name
        /\ \A n \in DOMAIN indices \ Names(l.evald) :
              ~Invoked(l, n) /\ indices'[n] = indices[n]
        /\ l.ret \in {0, 1}
        /\ (l.ret = 0 <=> FailedIn(l) = {})
        /\ (l.ret = 0 => Names(l.evald) = DOMAIN indices)]_vars

\* a call has returned failure before it reached an index which holds no
\* md5 although its source exists
C6_Witness ==
    /\ last.called
    /\ last.ret = 1
    /\ \E n \in DOMAIN indices \ Names(last.evald) :
          /\ last.src[Src(n)] # NoFile
          /\ files[Src(n)] = last.src[Src(n)]
          /\ indices[n].md5 = None

\* C7: an index whose source exists and whose target is absent when
\* post_compile evaluates it is run through makeindex exactly once in that
\* call; when the run exits zero, must_compile is set afterwards and the
\* index is not the one that made the call fail.
C7_TargetAbsent ==
    [][PostStep =>
        \A n \in Names(last'.evald) :
            files[Src(n)] # NoFile /\ files[Tgt(n)] = NoFile =>
               /\ Cardinality(RunsOf(last', n)) = 1
               /\ \A i \in RunsOf(last', n) :
                     last'.calls[i].exit = 0 =>
                        must_compile' = 1 /\ n \notin FailedIn(last')]_vars

\* a call has run makeindex once for an index, the run has exited zero,
\* the target is there and must_compile is set
C7_Witness ==
    /\ last.called
    /\ last.ret = 0
    /\ must_compile = 1
    /\ \E n \in DOMAIN indices \cap last.kept :
          /\ Cardinality(RunsOf(last, n)) = 1
          /\ \A i \in RunsOf(last, n) : last.calls[i].exit = 0
          /\ files[Tgt(n)] = ToolOutput

\* C8: the verdict on an index that post_compile evaluates follows the
\* ordered rules: (1) source absent: no run, md5 kept, and must_compile
\* changes only through the run of another index; (2) else target absent:
\* run, md5 := digest; (3) else md5 None: run, md5 := digest; (4) else
\* digest equal to md5: no run, md5 kept; digest different: run,
\* md5 := digest.  A call that finds no source at all returns success
\* without a run.
C8_Rules ==
    [][PostStep =>
        LET l == last' IN
        /\ \A n \in Names(l.evald) :
              LET ix == indices[n]
                  digest == md5_file(files, ix.source) IN
              IF files[ix.source] = NoFile
              THEN /\ ~Invoked(l, n)
                   /\ indices'[n].md5 = ix.md5
                   /\ n \notin FailedIn(l)
              ELSE IF files[ix.target] = NoFile \/ ix.md5 = None
              THEN Invoked(l, n) /\ indices'[n].md5 = digest
              ELSE IF ix.md5 = digest
              THEN ~Invoked(l, n) /\ indices'[n].md5 = ix.md5
              ELSE Invoked(l, n) /\ indices'[n].md5 = digest
        /\ (must_compile' # must_compile => ZeroExits(l) # {})
        /\ ((\A n \in DOMAIN indices : files[Src(n)] = NoFile) =>
               /\ l.ret = 0
               /\ l.calls = <<>>
               /\ must_compile' = must_compile
               /\ indices' = indices)]_vars

\* a call has run makeindex for an index and stored the digest of its
\* source, and rule (3) is about to apply to an index that was registered
\* without a source and now has a source and a target
C8_Witness ==
    /\ last.called
    /\ \E n \in DOMAIN indices \cap last.kept :
          /\ Invoked(last, n)
          /\ indices[n].md5 = md5_file(files, Src(n))
          /\ files[Src(n)] = last.src[Src(n)]
          /\ files[Src(n)] # NoFile
    /\ \E n \in DOMAIN indices :
          /\ indices[n].md5 = None
          /\ files[Src(n)] # NoFile
          /\ files[Tgt(n)] # NoFile

\* C9: no declaration, directive, post_compile or clean takes must_compile
\* from set to unset, and it goes from unset to set only in a call of
\* post_compile in which a run of makeindex has exited zero.
C9_Monotonic ==
    [][/\ must_compile' >= must_compile
       /\ (must_compile' > must_compile => PostStep /\ ZeroExits(last') # {})]_vars

\* must_compile has been set by a run, and a directive has been applied
C9_Witness ==
    /\ must_compile = 1
    /\ last.called
    /\ ZeroExits(last) # {}
    /\ ndirectives > 0

\* C10, as claimed: a directive with arguments of which the first is no
\* filter is applied, with all its arguments, to every registered index.
C10_Claimed ==
    [][\A cmd \in Commands, args \in ArgLists :
          (Len(args) > 0 /\ re_optarg(args[1]) = NoMatch /\ command(cmd, args))
          => indices' = [n \in DOMAIN indices |-> Index_command(indices[n], cmd, args)]]_vars

----------------------------------------------------------------------------
\* a directive whose first argument is a filter, and the names in the filter
Filtered(args) == Len(args) > 0 /\ re_optarg(args[1]) # NoMatch

FilterNames(args) == Names(split(re_optarg(args[1])[1], ""))

\* a step that applies one directive
DirectiveStep == ndirectives' = ndirectives + 1

\* C11: a directive whose first argument is a filter (n1,...,nk) applies the
\* command, with the remaining arguments, to the registered indices the
\* filter names and to no other: every index that is not named keeps its
\* options, style, search path and hash, and a name that is not registered
\* is skipped and adds no entry to the registry.
C11_Filtered ==
    [][DirectiveStep =>
       \A cmd \in Commands, args \in ArgLists :
          (Filtered(args) /\ command(cmd, args))
          => /\ DOMAIN indices' = DOMAIN indices
             /\ \A n \in DOMAIN indices :
                   indices'[n] = IF n \in FilterNames(args)
                                 THEN Index_command(indices[n], cmd, Tail(args))
                                 ELSE indices[n]]_vars

\* the directive path (zzz,aut) ~/sty has reached aut and left default alone
C11_Witness ==
    /\ ndirectives > 0
    /\ DOMAIN indices = {"default", "aut"}
    /\ indices["aut"].path = InitPath(src_path) \o << <<HOME, "/sty">> >>
    /\ indices["default"].path = InitPath(src_path)
    /\ indices["default"].opts = <<>>
    /\ indices["default"].style = None

----------------------------------------------------------------------------
\* The directives order german, order letter, order standard of a document,
\* applied one after the other, each with the same arguments in front of
\* its option: none, or a filter.

OrderSequence == << <<"german">>, <<"letter">>, <<"standard">> >>

Prefixes ==
    { <<>>,
      << <<"(", "default", ")">> >>,
      << <<"(", "zzz", ",", "aut", ")">> >> }

RECURSIVE ApplyAll(_, _, _, _)
ApplyAll(ixs, cmd, prefix, opts) ==
    IF opts = <<>> THEN ixs
    ELSE ApplyAll(Module_command(ixs, cmd, Append(prefix, Head(opts))),
                  cmd, prefix, Tail(opts))

order_sequence(prefix) ==
    /\ ndirectives <= MaxDirectives
    /\ indices' = ApplyAll(indices, "order", prefix, OrderSequence)
    /\ ndirectives' = ndirectives + Len(OrderSequence)
    /\ UNCHANGED <<files, must_compile, src_path, last>>

NextO ==
    \/ makeindex
    \/ \E d \in Declarations : newindex(d[1], d[2])
    \/ \E cmd \in Commands, args \in ArgLists :
          ndirectives < MaxDirectives /\ command(cmd, args)
    \/ \E prefix \in Prefixes : order_sequence(prefix)

SpecO == InitD /\ [][NextO]_vars

\* the indices a directive with these leading arguments is meant for
Addressed(prefix) ==
    IF prefix = <<>> THEN DOMAIN indices
    ELSE FilterNames(prefix) \cap DOMAIN indices

\* C12: applying order german, order letter, order standard in that
\* sequence, with or without a filter in front, leaves the options of every
\* index the directives address empty, whatever they held before.
C12_Claimed ==
    [][\A prefix \in Prefixes :
          order_sequence(prefix)
          => \A n \in Addressed(prefix) : indices'[n].opts = <<>>]_vars

----------------------------------------------------------------------------
IsPrefix(s, t) == Len(s) <= Len(t) /\ SubSeq(t, 1, Len(s)) = s

\* a step that registers an index under the name n
Registers(n) ==
    \/ n = "default" /\ makeindex
    \/ \E d \in Declarations :
          d[1] = n /\ re_newindex(d[2]) # NoMatch /\ newindex(d[1], d[2])

----------------------------------------------------------------------------
----------------------------------------------------------------------------
\* C15, as claimed, for the indices whose latest look at their source is
\* the one of the latest post_compile() call: the stored hash is None if
\* and only if the source did not exist at that call.
C15_Claimed ==
    \A n \in last.kept :
       (indices[n].md5 = None) <=> (last.src[Src(n)] = NoFile)

\* what a step does to the hash held under the name n
HashAfter(n) ==
    IF PostStep /\ n \in Names(last'.evald)
    THEN IF files[Src(n)] = NoFile
         THEN indices'[n].md5 = indices[n].md5
         ELSE indices'[n].md5 # None
    ELSE \/ n \in DOMAIN indices /\ indices'[n].md5 = indices[n].md5
         \/ /\ Registers(n)
            /\ (indices'[n].md5 = None) <=> (files[indices'[n].source] = NoFile)

\* C15, amended: a stored hash is None only if the source did not exist the
\* last time the index looked for it.  A registration stores None if and
\* only if the source does not exist; a post_compile() evaluation that finds
\* the source stores a hash that is not None, one that finds no source
\* leaves the hash as it was, None or not; nothing else changes the hash.
C15_Hash ==
    [][/\ \A n \in DOMAIN indices' : HashAfter(n)
       /\ \A n \in last'.kept :
             indices'[n].md5 = None => last'.src[indices'[n].source] = NoFile]_vars

\* an index that has kept its hash through a post_compile() call that found
\* no source
C15_Witness ==
    /\ last.called
    /\ \E n \in last.kept :
          indices[n].md5 # None /\ last.src[Src(n)] = NoFile

----------------------------------------------------------------------------
\* where x stands in a sequence that holds it
Pos(seq, x) == CHOOSE i \in 1..Len(seq) : seq[i] = x

\* C16, as claimed: post_compile() evaluates the indices in the order of
\* their registration.  Taken for an index a that a call which returned 0
\* has evaluated and an index b registered since: the next call evaluates
\* a, and its makeindex run if any, before b.
C16_Claimed ==
    [][(PostStep /\ last.called /\ last.ret = 0) =>
       \A a \in Names(last.evald), b \in DOMAIN indices \ Names(last.evald) :
          b \in Names(last'.evald)
          => /\ a \in Names(last'.evald)
             /\ Pos(last'.evald, a) < Pos(last'.evald, b)]_vars

\* C16, amended: post_compile() evaluates registered indices one after the
\* other in the order the dictionary yields them, whatever the order of
\* registration; no index is evaluated twice in a call, the makeindex runs
\* come in the order of evaluation, at most one for an index, and a call
\* that returns 0 has evaluated every registered index.
C16_Order ==
    [][PostStep =>
       LET e == last'.evald
           c == last'.calls IN
       /\ Names(e) \subseteq DOMAIN indices
       /\ \A i, j \in 1..Len(e) : e[i] = e[j] => i = j
       /\ \A i \in 1..Len(c) : c[i].name \in Names(e)
       /\ \A i, j \in 1..Len(c) :
             i < j => Pos(e, c[i].name) < Pos(e, c[j].name)
       /\ last'.ret = 0 => Names(e) = DOMAIN indices]_vars

\* a call has evaluated aut before default and run makeindex for both
C16_Witness ==
    /\ last.called
    /\ last.evald = <<"aut", "default">>
    /\ Len(last.calls) = 2
    /\ last.calls[1].name = "aut"

----------------------------------------------------------------------------
\* the registry after a registration under the name n of an index with the
\* suffixes src and tgt: the other entries as they were, and under n an
\* index that holds nothing of a previous one
Replaced(n, src, tgt) ==
    /\ DOMAIN indices' = DOMAIN indices \cup {n}
    /\ \A x \in DOMAIN indices \ {n} : indices'[x] = indices[x]
    /\ indices'[n].source = File(src_base, src)
    /\ indices'[n].target = File(src_base, tgt)
    /\ indices'[n].opts = <<>>
    /\ indices'[n].style = None
    /\ indices'[n].path = InitPath(src_path)
    /\ indices'[n].md5 = IF files[File(src_base, src)] = NoFile THEN None
                         ELSE md5_file(files, File(src_base, src))

\* C17: a registration under a name that is registered already replaces
\* the index and merges nothing: the set of names is the same, the index
\* under the name has no options, no style, the seeded search path and the
\* hash of the source as it exists at that moment (None without a source);
\* a declaration of a named index that does not match the pattern of two
\* groups changes nothing in the registry.
C17_Replace ==
    [][(~PostStep /\ ~DirectiveStep) =>
       /\ makeindex => Replaced("default", "idx", "ind")
       /\ \A d \in Declarations :
             newindex(d[1], d[2])
             => LET m == re_newindex(d[2]) IN
                IF m = NoMatch THEN indices' = indices
                ELSE Replaced(d[1], m[1], m[2])]_vars

\* an index that a post_compile() call evaluated with its source present
\* has been registered again after clean() removed the source: it holds no
\* hash any more
C17_Witness ==
    /\ last.called
    /\ \E n \in (Names(last.evald) \ last.kept) \cap DOMAIN indices :
          /\ last.src[Src(n)] # NoFile
          /\ files[Src(n)] = NoFile
          /\ indices[n].md5 = None
          /\ indices[n].opts = <<>>
          /\ indices[n].style = None

----------------------------------------------------------------------------
\* the files clean() is to remove: the source and the target of every
\* registered index, and the makeindex log of the document
Generated ==
    {Src(n) : n \in DOMAIN indices} \cup {Tgt(n) : n \in DOMAIN indices}
        \cup {IlgFile}

\* C18: clean() returns 0 in every case.  It removes those of the sources,
\* the targets and the log that exist and no other file, so that no
\* registered index has a source or a target afterwards; the registry, the
\* hash, options, style and search path of every index, and must_compile
\* are as before.
C18_Clean ==
    [][(~PostStep /\ ~DirectiveStep) =>
       \A order \in Orders(DOMAIN indices) :
          clean(order)
          => /\ Module_clean(files, indices, order).rc = 0
             /\ \A f \in AllFiles :
                   files'[f] = IF f \in Generated THEN NoFile ELSE files[f]
             /\ \A n \in DOMAIN indices :
                   files'[Src(n)] = NoFile /\ files'[Tgt(n)] = NoFile
             /\ indices' = indices
             /\ must_compile' = must_compile]_vars

\* the target and the log that a makeindex run wrote are gone, and so is the
\* source; the index still holds its hash and must_compile is still set
C18_Witness ==
    /\ last.called
    /\ must_compile = 1
    /\ files[IlgFile] = NoFile
    /\ \E n \in last.kept :
          /\ \E i \in RunsOf(last, n) : last.calls[i].exit = 0
          /\ files[Src(n)] = NoFile
          /\ files[Tgt(n)] = NoFile
          /\ indices[n].md5 # None

----------------------------------------------------------------------------
\* C19: every makeindex run gets the command line makeindex, -o, the
\* target, the options, then -s and the style if a style is set, then the
\* base name, made of the options and the style the index holds at the
\* call; it gets an environment that sets INDEXSTYLE if and only if the
\* search path holds more than its first, empty entry.
C19_Argv ==
    [][PostStep =>
       \A i \in 1..Len(last'.calls) :
          LET c == last'.calls[i]
              ix == indices[c.name] IN
          /\ c.argv = << <<"makeindex">>, <<"-o">>, ix.target >>
                          \o ix.opts
                          \o (IF ix.style = None THEN <<>>
                              ELSE << <<"-s">>, ix.style >>)
                          \o << <<src_base>> >>
          /\ (c.env # <<>>) <=> (Len(ix.path) > 1)
          /\ c.env # <<>> => c.env[1] = <<"INDEXSTYLE">>]_vars

\* makeindex has been run with a style and with INDEXSTYLE set
C19_Witness ==
    /\ last.called
    /\ \E i \in 1..Len(last.calls) :
          /\ last.calls[i].env # <<>>
          /\ Len(last.calls[i].argv) = 6
          /\ last.calls[i].argv[4] = <<"-s">>
          /\ last.calls[i].argv[5] = <<"my.ist">>

----------------------------------------------------------------------------
\* the state in which a build has settled: the latest post_compile() call
\* returned 0, no index has been registered since, every source holds the
\* bytes it held at that call, and the target of every index that has a
\* source is there (the makeindex runs have left it and clean() has not
\* removed it)
Settled ==
    /\ last.called
    /\ last.ret = 0
    /\ last.kept = DOMAIN indices
    /\ \A n \in DOMAIN indices :
          /\ files[Src(n)] = last.src[Src(n)]
          /\ files[Src(n)] # NoFile => files[Tgt(n)] # NoFile

\* C20: once sources no longer change, nothing is registered or cleaned
\* and the makeindex runs exit with 0 and leave their targets, a
\* post_compile() call that follows one that returned 0 runs makeindex for
\* no index, returns 0 and leaves must_compile, the indices and the files
\* as they are: the flag a pass of LaTeX has cleared stays cleared, so the
\* loop of the host that compiles again while the flag is set comes to an
\* end.
C20_Converges ==
    [][(PostStep /\ Settled)
       => /\ last'.calls = <<>>
          /\ last'.ret = 0
          /\ must_compile' = must_compile
          /\ indices' = indices
          /\ files' = files]_vars

\* a second call (or a later one with an even number) has found both
\* indices up to date, with source and target, and has left must_compile
\* cleared
C20_Witness ==
    /\ last.called
    /\ last.tick = 0
    /\ last.ret = 0
    /\ last.calls = <<>>
    /\ must_compile = 0
    /\ DOMAIN indices = {"default", "aut"}
    /\ last.kept = DOMAIN indices
    /\ \A n \in DOMAIN indices :
          /\ files[Src(n)] # NoFile
          /\ files[Tgt(n)] # NoFile
          /\ indices[n].md5 = md5_file(files, Src(n))

====
